---- MODULE Spec2Model ----
(***************************************************************************)
(* Flexiloan: the client-onboarding backend (POST /api/clients and         *)
(* GET /api/clients of the Express server) and the React dashboard that    *)
(* talks to it, both in src/frontend/src/App.jsx.                          *)
(*                                                                         *)
(* Scores are written in hundredths: 0.1 is 10, 0.5 is 50, 0.8 is 80 and   *)
(* 1 is 100, so the comparisons of the code are integer comparisons.       *)
(* The Arabic offer texts are written by the name of their tier:           *)
(* "premium" (interest discount), "extension" (repayment-period extension) *)
(* and "review" (account review).                                          *)
(***************************************************************************)
EXTENDS Integers, Sequences, FiniteSets, TLC

VARIABLES reqs, store, clock, listing,
          clients, loading, error, lang, formState, isSubmitting,
          fetches, submit, srvClients

backendVars == <<reqs, store, clock, listing>>
uiVars == <<clients, loading, error, lang, formState, isSubmitting,
            fetches, submit, srvClients>>
vars == <<reqs, store, clock, listing,
          clients, loading, error, lang, formState, isSubmitting,
          fetches, submit, srvClients>>

(***************************************************************************)
(* Bounds of the model.                                                    *)
(***************************************************************************)
MaxReq == 2
MaxClock == 2
MaxFetch == 2
MaxSubmit == 2

(***************************************************************************)
(* JavaScript values: undefined, NaN, numbers and strings (a string  *)
(* is the sequence of its characters).                                     *)
(***************************************************************************)
Undefined == [t |-> "undefined", n |-> 0, s |-> <<>>]
NaN == [t |-> "nan", n |-> 0, s |-> <<>>]
Num(n) == [t |-> "number", n |-> n, s |-> <<>>]
Str(s) == [t |-> "string", n |-> 0, s |-> s]

Digits == <<"0", "1", "2", "3", "4", "5", "6", "7", "8", "9">>
IsDigit(c) == \E i \in 1..10 : Digits[i] = c
DigitVal(c) == (CHOOSE i \in 1..10 : Digits[i] = c) - 1

\* The value of the longest prefix of digits of s, acc being the value so far.
RECURSIVE DigitPrefix(_, _)
DigitPrefix(s, acc) ==
    IF s = <<>> \/ ~IsDigit(Head(s)) THEN acc
    ELSE DigitPrefix(Tail(s), 10 * acc + DigitVal(Head(s)))

AllDigits(s) == \A i \in 1..Len(s) : IsDigit(s[i])

\* parseInt(v): a number is itself; a string is its leading digits, NaN when
\* it has none; undefined, null and NaN are NaN.
ParseInt(v) ==
    CASE v.t = "number" -> v
      [] v.t = "string" ->
            IF v.s # <<>> /\ IsDigit(Head(v.s)) THEN Num(DigitPrefix(v.s, 0)) ELSE NaN
      [] OTHER -> NaN

\* !v is false exactly for the truthy values.
Truthy(v) ==
    CASE v.t = "number" -> v.n # 0
      [] v.t = "string" -> v.s # <<>>
      [] OTHER -> FALSE

\* Number(v), the conversion a comparison with a number applies.
ToNumber(v) ==
    CASE v.t = "number" -> v
      [] v.t = "null" -> Num(0)
      [] v.t = "string" ->
            IF v.s = <<>> THEN Num(0)
            ELSE IF AllDigits(v.s) THEN Num(DigitPrefix(v.s, 0)) ELSE NaN
      [] OTHER -> NaN

\* v > k for a number k: false when v converts to NaN.
GreaterThan(v, k) == ToNumber(v).t = "number" /\ ToNumber(v).n > k

(***************************************************************************)
(* The backend: constants of the handlers.                                 *)
(***************************************************************************)
FallbackScore == 10
PremiumThreshold == 80
ExtensionThreshold == 50
StatusCreated == 201
StatusBadRequest == 400
StatusServerError == 500

Requests == 1..MaxReq

Sara == Str(<<"S", "a", "r", "a">>)
Abc == Str(<<"a", "b", "c">>)
High == Str(<<"h", "i", "g", "h">>)

Body(name, age, income, loans) ==
    [name |-> name, age |-> age, income |-> income, loans |-> loans]

\* The request bodies the model posts: valid inputs (income and loans may be
\* 0), each required field absent in turn, and an age that is no number.
ValidBodies ==
    { Body(Sara, Num(30), Num(50), Num(1)),
      Body(Sara, Num(30), Num(50), Num(0)),
      Body(Sara, Num(30), Num(0), Num(1)) }
AbsentBodies ==
    { Body(Undefined, Num(30), Num(50), Num(1)),
      Body(Sara, Undefined, Num(50), Num(1)),
      Body(Sara, Num(30), Undefined, Num(1)),
      Body(Sara, Num(30), Num(50), Undefined) }
NonNumericBodies ==
    { Body(Sara, Abc, Num(50), Num(1)) }
Bodies == ValidBodies \cup AbsentBodies \cup NonNumericBodies

\* What the scoring service can answer: an error (transport error or
\* non-success status, which axios rejects), or a success whose body is null,
\* or an object whose repayment_score is absent, a string or a number.
NoReply == [kind |-> "none", hasData |-> FALSE, repayment_score |-> Undefined]
AIError == [kind |-> "error", hasData |-> FALSE, repayment_score |-> Undefined]
AINullBody == [kind |-> "ok", hasData |-> FALSE, repayment_score |-> Undefined]
AIData(v) == [kind |-> "ok", hasData |-> TRUE, repayment_score |-> v]
AIScores == {50, 51, 80, 81, 150}
AIReplies ==
    {AIError, AINullBody, AIData(Undefined), AIData(High)}
        \cup {AIData(Num(s)) : s \in AIScores}

NoDoc ==
    [id |-> 0, name |-> Undefined, age |-> Undefined, income |-> Undefined,
     loans |-> Undefined, score |-> Undefined, offer |-> "none",
     message |-> <<"none", Undefined>>, createdAt |-> 0]

IdleReq ==
    [pc |-> "idle", body |-> Body(Undefined, Undefined, Undefined, Undefined),
     calls |-> <<>>, reply |-> NoReply, doc |-> NoDoc, error |-> "none", status |-> 0]

\* The presence check without its test of loans.
MissingField_LoansUnchecked(body) ==
    \/ ~Truthy(body.name)
    \/ ~Truthy(body.age)
    \/ ~Truthy(body.income)

\* Line 270: the presence check of the four fields.
MissingField(body) ==
    \/ ~Truthy(body.name)
    \/ ~Truthy(body.age)
    \/ ~Truthy(body.income)
    \/ body.loans = Undefined

\* The feature vector with income and age exchanged.
Features_Swapped(body) ==
    <<ParseInt(body.income), ParseInt(body.age), ParseInt(body.loans)>>

\* Line 275: the feature vector sent to the scoring service.
Features(body) == <<ParseInt(body.age), ParseInt(body.income), ParseInt(body.loans)>>

\* Lines 278-285: the score taken from the reply. Reading repayment_score of
\* a null body throws inside the try block and is caught like a failed call.
ScoreOf(reply) ==
    IF reply.kind = "error" \/ ~reply.hasData THEN Num(FallbackScore)
    ELSE reply.repayment_score

\* The offer tier with thresholds that include the boundary.
DeriveOffer_Inclusive(score) ==
    IF GreaterThan(score, PremiumThreshold - 1) THEN "premium"
    ELSE IF GreaterThan(score, ExtensionThreshold - 1) THEN "extension"
    ELSE "review"

\* Lines 289-298: the offer tier of a score.
DeriveOffer(score) ==
    IF GreaterThan(score, PremiumThreshold) THEN "premium"
    ELSE IF GreaterThan(score, ExtensionThreshold) THEN "extension"
    ELSE "review"

\* Lines 291, 294, 297: the message is the tier's template with the name.
DeriveMessage(score, name) == <<DeriveOffer(score), name>>

\* Lines 233-241: a required Number path holds a number or a string of digits.
NumberPathValid(v) ==
    \/ v.t = "number"
    \/ v.t = "string" /\ v.s # <<>> /\ AllDigits(v.s)

\* Lines 235-238: a Number path casts what it can to a number.
CastNumber(v) == IF NumberPathValid(v) THEN ToNumber(v) ELSE v

\* Lines 301-309: the document built from the raw body fields and the score;
\* r is the identity the store gives it.
NewClient(r, body, score) ==
    [id |-> r, name |-> body.name, age |-> CastNumber(body.age),
     income |-> CastNumber(body.income), loans |-> CastNumber(body.loans),
     score |-> CastNumber(score), offer |-> DeriveOffer(score),
     message |-> DeriveMessage(score, body.name), createdAt |-> 0]

\* Lines 233-241: the schema's validation of a document on save.
SchemaValid(doc) ==
    /\ doc.name.t = "string" /\ doc.name.s # <<>>
    /\ NumberPathValid(doc.age)
    /\ NumberPathValid(doc.income)
    /\ NumberPathValid(doc.loans)
    /\ NumberPathValid(doc.score)

\* The order of sort({createdAt: 1}), oldest first.
NewestFirst_Ascending(s) ==
    \A i, j \in 1..Len(s) : i < j => s[i].createdAt <= s[j].createdAt

\* Line 253: is the sequence ordered by createdAt, newest first.
NewestFirst(s) == \A i, j \in 1..Len(s) : i < j => s[i].createdAt >= s[j].createdAt

\* Line 253: the answers find().sort({createdAt: -1}) can give on a store:
\* its documents ordered newest first, documents of equal createdAt in any order.
SortedListings(st) ==
    { s \in [1..Len(st) -> {st[i] : i \in 1..Len(st)}] :
        /\ \A i, j \in 1..Len(st) : i # j => s[i] # s[j]
        /\ NewestFirst(s) }

(***************************************************************************)
(* The backend: handlers, one action per stretch between two awaits.       *)
(***************************************************************************)

\* Lines 265-279: POST /api/clients up to the await of the scoring call.
\* Requests are numbered in the order they arrive.
PostClients(r, body) ==
    /\ reqs[r].pc = "idle"
    /\ \A q \in Requests : q < r => reqs[q].pc # "idle"
    /\ IF MissingField(body)
       THEN reqs' = [reqs EXCEPT ![r] =
                [@ EXCEPT !.pc = "done", !.body = body, !.status = StatusBadRequest]]
       ELSE reqs' = [reqs EXCEPT ![r] =
                [@ EXCEPT !.pc = "awaitAI", !.body = body,
                          !.calls = Append(@, Features(body))]]
    /\ UNCHANGED <<store, clock, listing>>
    /\ UNCHANGED uiVars

\* Lines 279-311: the scoring call settles; the rest of the handler runs up to
\* the await of save(), which stamps createdAt (line 241), and rejects at once
\* with a ValidationError when the document is invalid (lines 314-317).
AIResponds(r, reply) ==
    /\ reqs[r].pc = "awaitAI"
    /\ LET doc == NewClient(r, reqs[r].body, ScoreOf(reply))
       IN IF SchemaValid(doc)
          THEN reqs' = [reqs EXCEPT ![r] =
                   [@ EXCEPT !.pc = "saving", !.reply = reply,
                             !.doc = [doc EXCEPT !.createdAt = clock]]]
          ELSE reqs' = [reqs EXCEPT ![r] =
                   [@ EXCEPT !.pc = "done", !.reply = reply, !.doc = doc,
                             !.error = "ValidationError",
                             !.status = StatusServerError]]
    /\ UNCHANGED <<store, clock, listing>>
    /\ UNCHANGED uiVars

\* Lines 311-312: the store acknowledges the insert.
SaveResolves(r) ==
    /\ reqs[r].pc = "saving"
    /\ store' = Append(store, reqs[r].doc)
    /\ reqs' = [reqs EXCEPT ![r] = [@ EXCEPT !.pc = "done", !.status = StatusCreated]]
    /\ UNCHANGED <<clock, listing>>
    /\ UNCHANGED uiVars

\* Lines 311, 314-317: the store fails the insert.
SaveRejects(r) ==
    /\ reqs[r].pc = "saving"
    /\ reqs' = [reqs EXCEPT ![r] =
            [@ EXCEPT !.pc = "done", !.error = "StorageError", !.status = StatusServerError]]
    /\ UNCHANGED <<store, clock, listing>>
    /\ UNCHANGED uiVars

\* The server's clock (Date.now()) moves on.
Tick ==
    /\ clock < MaxClock
    /\ clock' = clock + 1
    /\ UNCHANGED <<reqs, store, listing>>
    /\ UNCHANGED uiVars

\* Lines 251-254: GET /api/clients answers with the sorted documents.
GetClients ==
    /\ \E s \in SortedListings(store) :
          listing' = [status |-> 200, data |-> s, of |-> store]
    /\ UNCHANGED <<reqs, store, clock>>
    /\ UNCHANGED uiVars

\* Lines 255-258: GET /api/clients when the read fails.
GetClientsFails ==
    /\ listing' = [status |-> StatusServerError, data |-> <<>>, of |-> store]
    /\ UNCHANGED <<reqs, store, clock>>
    /\ UNCHANGED uiVars


(***************************************************************************)
(* The dashboard (the App component). The server it talks to is written   *)
(* here by what it answers: srvClients is the server's list of client ids, *)
(* newest first.                                                           *)
(***************************************************************************)
Fetches == 1..MaxFetch

Empty == Str(<<>>)
EmptyForm == [name |-> Empty, age |-> Empty, income |-> Empty, loans |-> Empty]

\* What the user can type into each field of the form.
FieldValues ==
    [name |-> {Empty, Sara},
     age |-> {Empty, Str(<<"3", "0">>)},
     income |-> {Empty, Str(<<"5", "0">>), Str(<<"0">>)},
     loans |-> {Empty, Str(<<"1">>)}]
FieldNames == {"name", "age", "income", "loans"}

OtherLang(l) == IF l = "en" THEN "ar" ELSE "en"

UnusedFetch == [pc |-> "unused", ok |-> FALSE, data |-> <<>>, lang |-> "ar"]
IdleSubmit ==
    [pc |-> "idle", captured |-> <<>>, body |-> Body(Empty, Empty, Empty, Empty),
     ok |-> FALSE, id |-> 0, count |-> 0]

\* Line 106: is one of the four fields of the form empty.
FormIncomplete(f) ==
    ~Truthy(f.name) \/ ~Truthy(f.age) \/ ~Truthy(f.income) \/ ~Truthy(f.loans)

\* Lines 112-117: the body the form posts.
FormBody(f) == Body(f.name, ParseInt(f.age), ParseInt(f.income), ParseInt(f.loans))

\* Line 118: the list shown after a successful submit; shown is the clients
\* value of the render whose handleSubmit ran.
WithNewClient(id, shown) == <<id>> \o shown

\* Lines 70-75 and the first run of the effect of lines 81-96.
UIInit ==
    /\ clients = <<>>
    /\ loading = TRUE
    /\ error = "none"
    /\ lang = "ar"
    /\ formState = EmptyForm
    /\ isSubmitting = FALSE
    /\ fetches = [i \in Fetches |->
                    IF i = 1 THEN [UnusedFetch EXCEPT !.pc = "waiting"] ELSE UnusedFetch]
    /\ submit = IdleSubmit

\* Lines 99-102: the user types into a field.
HandleInputChange(name, value) ==
    /\ formState[name] # value
    /\ formState' = [formState EXCEPT ![name] = value]
    /\ UNCHANGED <<clients, loading, error, lang, isSubmitting, fetches, submit, srvClients>>
    /\ UNCHANGED backendVars

\* Line 144 and lines 81-85: the language button; t.error changes, so the
\* effect runs again and starts a fetch.
ToggleLang(i) ==
    /\ fetches[i].pc = "unused"
    /\ \A j \in Fetches : j < i => fetches[j].pc # "unused"
    /\ lang' = OtherLang(lang)
    /\ loading' = TRUE
    /\ fetches' = [fetches EXCEPT ![i] = [UnusedFetch EXCEPT !.pc = "waiting", !.lang = lang']]
    /\ UNCHANGED <<clients, error, formState, isSubmitting, submit, srvClients>>
    /\ UNCHANGED backendVars

\* The server answers a GET: its list, or a failure.
ServerAnswersGet(i, ok) ==
    /\ fetches[i].pc = "waiting"
    /\ fetches' = [fetches EXCEPT ![i] =
            [@ EXCEPT !.pc = "answered", !.ok = ok,
                      !.data = IF ok THEN srvClients ELSE <<>>]]
    /\ UNCHANGED <<clients, loading, error, lang, formState, isSubmitting, submit, srvClients>>
    /\ UNCHANGED backendVars

\* Lines 85-93: the answer of a GET arrives.
FetchSettles(i) ==
    /\ fetches[i].pc = "answered"
    /\ IF fetches[i].ok
       THEN clients' = fetches[i].data /\ error' = "none"
       ELSE clients' = clients /\ error' = fetches[i].lang
    /\ loading' = FALSE
    /\ fetches' = [fetches EXCEPT ![i] = [@ EXCEPT !.pc = "done"]]
    /\ UNCHANGED <<lang, formState, isSubmitting, submit, srvClients>>
    /\ UNCHANGED backendVars

\* Lines 104-117: the form is submitted (the button is disabled while
\* isSubmitting); with an empty field it only alerts.
HandleSubmit ==
    /\ ~isSubmitting
    /\ submit.pc = "idle"
    /\ submit.count < MaxSubmit
    /\ IF FormIncomplete(formState)
       THEN UNCHANGED <<isSubmitting, submit>>
       ELSE /\ isSubmitting' = TRUE
            /\ submit' = [submit EXCEPT !.pc = "waiting", !.captured = clients,
                                        !.body = FormBody(formState),
                                        !.count = @ + 1]
    /\ UNCHANGED <<clients, loading, error, lang, formState, fetches, srvClients>>
    /\ UNCHANGED backendVars

\* The server answers a POST: a body the presence check of line 270 refuses is
\* never created; any other is created, or fails.
ServerAnswersPost(ok) ==
    /\ submit.pc = "waiting"
    /\ ok => ~MissingField(submit.body)
    /\ submit' = [submit EXCEPT !.pc = "answered", !.ok = ok,
                                !.id = IF ok THEN Len(srvClients) + 1 ELSE 0]
    /\ srvClients' = IF ok THEN <<Len(srvClients) + 1>> \o srvClients ELSE srvClients
    /\ UNCHANGED <<clients, loading, error, lang, formState, isSubmitting, fetches>>
    /\ UNCHANGED backendVars

\* Lines 118-127: the answer of the POST arrives.
SubmitSettles ==
    /\ submit.pc = "answered"
    /\ IF submit.ok
       THEN /\ clients' = WithNewClient(submit.id, submit.captured)
            /\ formState' = EmptyForm
       ELSE UNCHANGED <<clients, formState>>
    /\ isSubmitting' = FALSE
    /\ submit' = [submit EXCEPT !.pc = "idle"]
    /\ UNCHANGED <<loading, error, lang, fetches, srvClients>>
    /\ UNCHANGED backendVars

(***************************************************************************)
(* Specifications of the backend.                                          *)
(***************************************************************************)
NoListing == [status |-> 0, data |-> <<>>, of |-> <<>>]

BackendInit ==
    /\ reqs = [r \in Requests |-> IdleReq]
    /\ store = <<>>
    /\ clock = 0
    /\ listing = NoListing

Init == BackendInit /\ UIInit /\ srvClients = <<>>

\* The dashboard opens on a server that holds no client yet, or one.
UIStart == BackendInit /\ UIInit /\ srvClients \in {<<>>, <<1>>}

\* The onboarding pipeline under every body and every answer of the scoring
\* service.
Next ==
    \/ \E r \in Requests, body \in Bodies : PostClients(r, body)
    \/ \E r \in Requests, reply \in AIReplies : AIResponds(r, reply)
    \/ \E r \in Requests : SaveResolves(r)
    \/ \E r \in Requests : SaveRejects(r)

Spec == Init /\ [][Next]_vars

\* The scoring service is outside the program and nothing makes it answer: the
\* call of line 279 sets no timeout, so no step of the handler stands for one.
\* The store answers every save.
FairSpec ==
    /\ Spec
    /\ \A r \in Requests : WF_vars(SaveResolves(r) \/ SaveRejects(r))

\* Onboardings of valid clients with a moving clock, and listings.
ListBodies == { Body(Sara, Num(30), Num(50), Num(1)) }
ListReplies == { AIError, AIData(Num(81)) }

ListNext ==
    \/ \E r \in Requests, body \in ListBodies : PostClients(r, body)
    \/ \E r \in Requests, reply \in ListReplies : AIResponds(r, reply)
    \/ \E r \in Requests : SaveResolves(r)
    \/ \E r \in Requests : SaveRejects(r)
    \/ Tick
    \/ GetClients
    \/ GetClientsFails

ListSpec == Init /\ [][ListNext]_vars

\* The dashboard.
UINext ==
    \/ \E name \in FieldNames : \E value \in FieldValues[name] : HandleInputChange(name, value)
    \/ \E i \in Fetches : ToggleLang(i)
    \/ \E i \in Fetches, ok \in BOOLEAN : ServerAnswersGet(i, ok)
    \/ \E i \in Fetches : FetchSettles(i)
    \/ HandleSubmit
    \/ \E ok \in BOOLEAN : ServerAnswersPost(ok)
    \/ SubmitSettles

UISpec == UIStart /\ [][UINext]_vars

(***************************************************************************)
(* The claims, on the onboarding pipeline (Spec).                          *)
(***************************************************************************)
Stored(r) == \E i \in 1..Len(store) : store[i].id = r
Scored(r) == reqs[r].reply # NoReply

\* A ClientInput of the data model: a non-empty name, a positive integer age,
\* non-negative integer income and loans.
IsValidInput(body) ==
    /\ body.name.t = "string" /\ body.name.s # <<>>
    /\ body.age.t = "number" /\ body.age.n > 0
    /\ body.income.t = "number" /\ body.income.n >= 0
    /\ body.loans.t = "number" /\ body.loans.n >= 0

FieldAbsent(body) ==
    Undefined \in {body.name, body.age, body.income, body.loans}

NotANumber(v) == v.t = "string" /\ ~(v.s # <<>> /\ AllDigits(v.s))
FieldNonNumeric(body) ==
    ~FieldAbsent(body)
        /\ (NotANumber(body.age) \/ NotANumber(body.income) \/ NotANumber(body.loans))

\* The scoring call failed, or answered without a numeric repayment_score.
FailedOrMalformed(reply) ==
    \/ reply.kind = "error"
    \/ reply.kind = "ok" /\ (~reply.hasData \/ reply.repayment_score.t # "number")

InUnitInterval(v) == v.t = "number" /\ v.n >= 0 /\ v.n <= 100

\* C1: a validated request whose scoring call failed or answered with a
\* malformed body, and whose store did not fail, ends 201 with a persisted
\* record of score 0.1 and the review offer.
C1_FallbackOnFailedOrMalformed ==
    \A r \in Requests :
        (/\ reqs[r].pc = "done"
         /\ FailedOrMalformed(reqs[r].reply)
         /\ IsValidInput(reqs[r].body)
         /\ reqs[r].error # "StorageError")
        => /\ reqs[r].status = StatusCreated
           /\ Stored(r)
           /\ reqs[r].doc.score = Num(FallbackScore)
           /\ reqs[r].doc.offer = "review"

\* C2: a valid ClientInput ends either with a persisted record whose score is
\* in [0,1] or with a storage error, never with a validation failure, and no
\* persisted record has a score outside [0,1].
C2_ValidInputOutcomes ==
    /\ \A r \in Requests :
          (reqs[r].pc = "done" /\ IsValidInput(reqs[r].body))
          => \/ /\ reqs[r].status = StatusCreated
                /\ Stored(r)
                /\ InUnitInterval(reqs[r].doc.score)
             \/ /\ reqs[r].status = StatusServerError
                /\ reqs[r].error = "StorageError"
    /\ \A i \in 1..Len(store) : InUnitInterval(store[i].score)

\* The tier the claim gives a score s (in hundredths).
ClaimedTier(s) ==
    IF s > 80 THEN "premium" ELSE IF s > 50 THEN "extension" ELSE "review"
TierRank(o) == IF o = "premium" THEN 3 ELSE IF o = "extension" THEN 2 ELSE 1

\* C3: the offer is a function of the score with strict thresholds: above 0.8
\* premium, above 0.5 and up to 0.8 extension, up to 0.5 review, never lower
\* for the next higher score (the function does not depend on the state, so
\* the scores 0, 0.01, ..., 1 are run through it once, before any request);
\* and every document built for a score in [0,1] carries that tier's offer
\* and message.
C3_OfferTiering ==
    /\ (\A r \in Requests : reqs[r].pc = "idle")
       => /\ \A s \in 0..100 : DeriveOffer(Num(s)) = ClaimedTier(s)
          /\ \A s \in 0..99 :
                TierRank(DeriveOffer(Num(s))) <= TierRank(DeriveOffer(Num(s + 1)))
    /\ \A r \in Requests :
          (Scored(r) /\ InUnitInterval(reqs[r].doc.score))
          => /\ reqs[r].doc.offer = ClaimedTier(reqs[r].doc.score.n)
             /\ reqs[r].doc.message = <<ClaimedTier(reqs[r].doc.score.n), reqs[r].body.name>>
    /\ \A i \in 1..Len(store) :
          InUnitInterval(store[i].score) => store[i].offer = ClaimedTier(store[i].score.n)

\* Documents at both boundaries are persisted: 0.8 with the extension offer
\* and 0.5 with the review offer.
C3_Witness ==
    /\ \E i \in 1..Len(store) : store[i].score = Num(80) /\ store[i].offer = "extension"
    /\ \E i \in 1..Len(store) : store[i].score = Num(50) /\ store[i].offer = "review"

\* C4: a request with one of the four required fields absent ends with status
\* 400, with no call to the scoring service and no document in the store.
C4_AbsentFieldRejected ==
    \A r \in Requests :
        (reqs[r].pc # "idle" /\ FieldAbsent(reqs[r].body))
        => /\ reqs[r].pc = "done"
           /\ reqs[r].status = StatusBadRequest
           /\ reqs[r].calls = <<>>
           /\ reqs[r].reply = NoReply
           /\ ~Stored(r)

\* A request without loans was refused after another client was persisted,
\* and the store holds that client alone.
C4_Witness ==
    \E r, q \in Requests :
        /\ reqs[r].pc = "done" /\ reqs[r].body.loans = Undefined
        /\ reqs[r].body.name # Undefined /\ reqs[r].status = StatusBadRequest
        /\ q < r /\ Stored(q) /\ Len(store) = 1

\* C5: a request whose age, income or loans is present but not numeric ends
\* with status 400, with no call to the scoring service and no document in
\* the store.
C5_NonNumericRejected ==
    \A r \in Requests :
        (reqs[r].pc # "idle" /\ FieldNonNumeric(reqs[r].body))
        => /\ reqs[r].pc = "done"
           /\ reqs[r].status = StatusBadRequest
           /\ reqs[r].calls = <<>>
           /\ ~Stored(r)

\* C6: a request that waits for the scoring service eventually answers.
C6_ScoringCallBounded ==
    \A r \in Requests : (reqs[r].pc = "awaitAI") ~> (reqs[r].pc = "done")

\* C8: a failed save ends the request with status 500 and leaves no document
\* of it in the store, and a request with valid input has no other failure:
\* it ends 201, or 500 after its save failed.
C8_StorageFailureOnly ==
    \A r \in Requests :
        /\ (reqs[r].pc = "done" /\ reqs[r].error # "none")
           => reqs[r].status = StatusServerError /\ ~Stored(r)
        /\ (reqs[r].pc = "done" /\ IsValidInput(reqs[r].body))
           => \/ reqs[r].status = StatusCreated /\ Stored(r)
              \/ reqs[r].status = StatusServerError /\ reqs[r].error # "none"

\* C9: a validated request has sent exactly one call to the scoring service,
\* carrying [age, income, loans] in that order, whatever the call's outcome;
\* when the call failed the document gets the fallback score and the review
\* offer, and the request of a valid client still ends 201 unless the store
\* fails.
C9_OneScoringCall ==
    \A r \in Requests :
        /\ Len(reqs[r].calls) <= 1
        /\ (reqs[r].pc # "idle" /\ ~MissingField(reqs[r].body))
           => /\ Len(reqs[r].calls) = 1
              /\ reqs[r].calls[1][1] = ParseInt(reqs[r].body.age)
              /\ reqs[r].calls[1][2] = ParseInt(reqs[r].body.income)
              /\ reqs[r].calls[1][3] = ParseInt(reqs[r].body.loans)
        /\ reqs[r].reply = AIError
           => /\ reqs[r].pc \in {"saving", "done"}
              /\ reqs[r].doc.score = Num(FallbackScore)
              /\ reqs[r].doc.offer = "review"
              /\ (reqs[r].pc = "done" /\ IsValidInput(reqs[r].body))
                 => \/ reqs[r].status = StatusCreated /\ Stored(r)
                    \/ reqs[r].error = "StorageError"

\* A client whose scoring call failed was persisted after one call carrying
\* [30, 50, 1].
C9_Witness ==
    \E r \in Requests :
        /\ reqs[r].reply = AIError
        /\ reqs[r].calls = << <<Num(30), Num(50), Num(1)>> >>
        /\ reqs[r].status = StatusCreated
        /\ Stored(r)

(***************************************************************************)
(* The claims on listings (ListSpec).                                      *)
(***************************************************************************)
\* The place of document d in the store, which holds the documents in the
\* order their saves completed.
PlaceInStore(st, d) == CHOOSE i \in 1..Len(st) : st[i] = d

\* The listing answers with every document of the store it read, each once.
ListsWholeStore ==
    /\ Len(listing.data) = Len(listing.of)
    /\ \A i \in 1..Len(listing.of) :
          \E j \in 1..Len(listing.data) : listing.data[j] = listing.of[i]

\* Every listed document belongs to a request whose save has completed.
ListsOnlySaved ==
    \A j \in 1..Len(listing.data) :
        /\ reqs[listing.data[j].id].pc = "done"
        /\ reqs[listing.data[j].id].status = StatusCreated

\* C7 as stated: a listing holds every persisted record, only records whose
\* save has completed, and of any two records the one persisted later first.
C7_PersistedLaterFirst ==
    listing.status = 200
    => /\ ListsWholeStore
       /\ ListsOnlySaved
       /\ \A i, j \in 1..Len(listing.data) :
             i < j => PlaceInStore(listing.of, listing.data[i])
                        > PlaceInStore(listing.of, listing.data[j])

\* C7 amended: a listing holds every persisted record, only records whose
\* save has completed, and of any two records with different createdAt
\* stamps the one stamped later first.
C7_ListingState ==
    listing.status = 200
    => /\ ListsWholeStore
       /\ ListsOnlySaved
       /\ \A i, j \in 1..Len(listing.data) :
             listing.data[i].createdAt > listing.data[j].createdAt => i < j

\* C7 amended, with the read-only part: no step that answers a listing
\* changes the store.
C7_ListingNewestStampFirst ==
    /\ []C7_ListingState
    /\ [][listing' # listing => store' = store]_vars

\* A listing of two clients with different stamps.
C7_Witness ==
    /\ listing.status = 200
    /\ Len(listing.data) = 2
    /\ listing.data[1].createdAt > listing.data[2].createdAt

(***************************************************************************)
(* The claim on the dashboard (UISpec).                                    *)
(***************************************************************************)
Shown(list, id) == \E i \in 1..Len(list) : list[i] = id

\* C10: when the answer of a submit arrives, isSubmitting becomes false, and
\* after a success the list shown starts with the new client and still holds
\* every client shown just before.
C10_SubmitKeepsShownClients ==
    [][ (submit.pc = "answered" /\ submit'.pc = "idle")
        => /\ isSubmitting' = FALSE
           /\ submit.ok
              => /\ clients'[1] = submit.id
                 /\ \A i \in 1..Len(clients) : Shown(clients', clients[i]) ]_vars

====
